---- MODULE Spec2Model ----
(***************************************************************************)
(* FM MPX generator with RDS/RDS2 (package rds2): the RDS block coder and  *)
(* group builder (rds2/rds.py), the group scheduler RdsBitstreamGenerator, *)
(* the logo framer (rds2/logo.py), the per-block sample clock of make_mpx  *)
(* (rds2/mpx.py, rds2/modem.py), the threads of `play` (rds2/cli.py) and   *)
(* the stream control of the web UI (webui.py).                            *)
(***************************************************************************)
EXTENDS Integers, Sequences, FiniteSets, TLC

VARIABLES
    \* ---- RdsBitstreamGenerator (rds.py 119-171) ----
    cfg,          \* self.cfg : RdsConfig
    ps_index,     \* self.ps_index
    rt_index,     \* self.rt_index
    logo_frame,   \* self.logo_frame : [present, bits]  (present = FALSE is None)
    logo_idx,     \* self.logo_idx
    gen_pc,       \* "idle" | "loop" : inside generate_bits' while loop or not
    total_bits,   \* generate_bits: argument total_bits
    filled,       \* generate_bits: local filled
    out,          \* generate_bits: the first `filled` entries of out
    call_bits,    \* history: next_group_bits outputs of the running call, concatenated
    call_last,    \* history: length of the last group fetched by the running call
    last_group,   \* history: the most recent next_group_bits result [kind, seg, bits]
    n_direct,     \* history: while next_group_bits is all that was ever called on
                  \* the object, the number of these calls (up to MaxDirect);
                  \* MaxDirect afterwards
    \* ---- generate_bits split over two calls (resumability) ----
    split,        \* [logo, a, b] : the logo handed over and the two sizes
    parts,        \* [done, first, second, whole] : the three results
    \* ---- _rds_crc10 / _rds_block driver ----
    word16,       \* the 16-bit data word under test
    offset_word,  \* the offset word under test
    block,        \* [done, word, cw] : result of _rds_block(word16, offset_word)
    \* ---- load_logo_bits driver (logo.py 13-65) ----
    arr,          \* the grey raster after resize: [w, h, pix] (pix row-major)
    all_bits,     \* [done, bits] : the frame load_logo_bits returned
    \* ---- play (cli.py 81-292) ----
    mode,         \* "file" (--input/--tone) | "capture" (--system-audio/--capture-name)
    fs,           \* --fs
    blocksize,    \* --blocksize
    stereo_len,   \* stereo.shape[0] (file mode)
    src_given,    \* capture mode: tone is not None or input is not None
    duration_set, \* capture mode: duration and duration > 0
    time_up,      \* capture mode: time.time() - start_time >= duration
    idx,          \* producer: idx
    rds_len,      \* producer: len(rds_bits)
    prod_alive,   \* prod_thread.is_alive() / worker_thread.is_alive()
    q_in,         \* capture mode: q_in
    n_captured,   \* capture mode: blocks handed to in_callback so far
    q_out,        \* q_out
    stream,       \* the OutputStream: "unopened" | "active" | "stopped" | "closed"
    delivered,    \* history: blocks the callback copied into outdata, in order
    n_put,        \* history: MPX blocks put on q_out so far
    n_silence,    \* history: callbacks that wrote silence (queue.Empty)
    silent_before, \* history: for each delivered block, n_silence when it was copied
    bits_taken,   \* history: RDS bits taken off the stream for the blocks so far
    \* ---- build_group_0a / build_group_2a driver (rds.py 48-116) ----
    bcfg,         \* the cfg argument: RdsConfig
    pair_index,   \* the ps_pair_index / rt_pair_index argument
    built,        \* [done, type, bits] : the group returned
    \* ---- differential_encode driver (modem.py 8-16) ----
    enc_bits,     \* the bits argument
    enc_out,      \* [done, symbols] : the array returned
    \* ---- make_mpx driver (mpx.py 26-62) ----
    mpx_args,     \* the arguments: [stereo, pilot_level, rds_level, rds2_level,
                  \*   has_bits, wave_len, enable_rds2]
    mpx_ret,      \* [done, err, lpr, rds, mpx] : locals and result of the call
    \* ---- web UI stream control (webui.py 208-218, 242-377) ----
    stream_thread, \* _stream_thread : the Thread it refers to (0 is None)
    threads,      \* every Thread(target=run_stream) made so far: [pc, cb]
    n_threads,    \* how many were made
    stop_flag,    \* _stop_flag.is_set()
    running,      \* STATE['running']
    req,          \* position of each /start request being handled
    stop_for      \* history: the thread that was the only one alive, and in its
                  \* loop, when /stop was last requested (0: there was none)

genVars  == <<cfg, ps_index, rt_index, logo_frame, logo_idx, gen_pc, total_bits,
              filled, out, call_bits, call_last, last_group, n_direct>>
resVars  == <<split, parts>>
crcVars  == <<word16, offset_word, block>>
logoVars == <<arr, all_bits>>
playVars == <<mode, fs, blocksize, stereo_len, src_given, duration_set, time_up, idx, rds_len,
              prod_alive, q_in, n_captured, q_out, stream, delivered, n_put,
              n_silence, silent_before, bits_taken>>
bldVars  == <<bcfg, pair_index, built>>
encVars  == <<enc_bits, enc_out>>
mpxVars  == <<mpx_args, mpx_ret>>
webVars  == <<stream_thread, threads, n_threads, stop_flag, running, req, stop_for>>
vars     == <<genVars, resVars, crcVars, logoVars, playVars, bldVars, encVars, mpxVars,
              webVars>>

-----------------------------------------------------------------------------
(* Bounds of the model *)

\* count the next_group_bits calls of a fresh object up to this many
MaxDirect == 16
\* rasters of every size up to MaxLogoW x MaxLogoH, every black/white pattern
MaxLogoW == 3
MaxLogoH == 2
\* file mode: inputs of up to MaxBlocks blocks
MaxBlocks == 9
\* capture mode: the input device delivers at most MaxCaptured blocks
MaxCaptured == 3
\* the silence counter counts up to MaxSilence
MaxSilence == 2
\* differential_encode is run on every bit sequence of up to MaxEncBits bits
MaxEncBits == 6

-----------------------------------------------------------------------------
(* config.py constants *)

RDS2_LOGO_MAX_W == 64
RDS2_LOGO_MAX_H == 32
RDS2_LOGO_MAGIC == 167
RDS_CRC_POLY == 1465
RDS_OFFSET_A == 252
RDS_OFFSET_B == 408
RDS_OFFSET_C == 360
RDS_OFFSET_D == 436
\* "approx group size": the max_bits next_group_bits passes to _next_logo_chunk
LOGO_CHUNK_BITS == 104

-----------------------------------------------------------------------------
(* Integer bit operations (Python's >>, &, ^, | on the widths the code uses) *)

Pow2(n) == 2 ^ n

\* (x >> i) & 1
BitAt(x, i) == (x \div Pow2(i)) % 2

RECURSIVE XorBits(_, _, _)
\* a ^ b for a, b < 2^n
XorBits(a, b, n) ==
    IF n = 0 THEN 0
    ELSE (((a % 2) + (b % 2)) % 2) + 2 * XorBits(a \div 2, b \div 2, n - 1)

RECURSIVE OrBits(_, _, _)
\* a | b for a, b < 2^n
OrBits(a, b, n) ==
    IF n = 0 THEN 0
    ELSE (IF (a % 2) = 1 \/ (b % 2) = 1 THEN 1 ELSE 0)
         + 2 * OrBits(a \div 2, b \div 2, n - 1)

Min(a, b) == IF a < b THEN a ELSE b

\* seq[:n] for n >= 0
Take(seq, n) == SubSeq(seq, 1, Min(n, Len(seq)))

\* seq[i : i + n] (0-based i, numpy slice semantics)
Slice(seq, i, n) == SubSeq(seq, i + 1, Min(i + n, Len(seq)))

\* the bits in the order of range(nbits): least significant first
BitsLSBFirst(val, nbits) == [k \in 1..nbits |-> BitAt(val, k - 1)]

\* for i in range(nbits - 1, -1, -1): append((val >> i) & 1)
BitsMSB(val, nbits) == [k \in 1..nbits |-> BitAt(val, nbits - k)]

-----------------------------------------------------------------------------
(* RdsConfig values of the model *)

\* "TESTFM", "HELLO WORLD", "RADIO ONE" as character codes
StrTESTFM     == << 84, 69, 83, 84, 70, 77 >>
StrHELLOWORLD == << 72, 69, 76, 76, 79, 32, 87, 79, 82, 76, 68 >>
StrRADIOONE   == << 82, 65, 68, 73, 79, 32, 79, 78, 69 >>

\* RdsConfig values: the CLI's default PI and PS with a radiotext, and one with
\* every field set
DefaultConfig ==
    [pi_code |-> 4660, pty |-> 0, tp |-> 0, program_service_name |-> StrTESTFM,
     radiotext |-> StrHELLOWORLD]

\* the third: --pi 0x12345, which int(pi, 16) accepts
Configs ==
    { DefaultConfig,
      [pi_code |-> 65535, pty |-> 21, tp |-> 1, program_service_name |-> StrRADIOONE,
       radiotext |-> <<>>],
      [pi_code |-> 74565, pty |-> 0, tp |-> 0, program_service_name |-> StrTESTFM,
       radiotext |-> <<>>] }

\* a radiotext of 70 characters
StrLongText == [i \in 1..70 |-> 65 + (i % 26)]

\* the configurations the group builders are run on: every field at both ends
\* of its range, names and texts empty, short and over-long
BuilderConfigs ==
    [pi_code : { 4660, 65535 }, pty : { 0, 31 }, tp : { 0, 1 },
     program_service_name : { <<>>, StrTESTFM, StrRADIOONE },
     radiotext : { <<>>, StrHELLOWORLD, StrLongText }]

-----------------------------------------------------------------------------
(* rds.py: CRC and block packer *)

RECURSIVE CrcLoop(_, _, _)
\* the body of `for _ in range(26)` with mask = 1 << k, run for k, k-1, ..., 0
CrcLoop(reg, data, k) ==
    IF k < 0 THEN reg
    ELSE LET bit  == BitAt(data, k)
             top  == BitAt(reg, 10)
             reg1 == ((reg * 2) % 2048) + bit
             reg2 == IF top = 1 THEN XorBits(reg1, RDS_CRC_POLY, 11) ELSE reg1
         IN  CrcLoop(reg2, data, k - 1)

_rds_crc10(w) == CrcLoop(0, w * 1024, 25) % 1024

_rds_block(w, off) ==
    [word |-> w % 65536, cw |-> XorBits(_rds_crc10(w), off, 10) % 1024]

RECURSIVE _pack_bits_from_blocks(_)
_pack_bits_from_blocks(blocks) ==
    IF blocks = <<>> THEN <<>>
    ELSE BitsMSB(Head(blocks).word, 16) \o BitsMSB(Head(blocks).cw, 10)
         \o _pack_bits_from_blocks(Tail(blocks))

-----------------------------------------------------------------------------
(* rds.py: group builder *)

Space == 32

\* ljust padding with NUL instead of the space
LjustCutNul(s, n) ==
    SubSeq(s \o [i \in 1..(IF Len(s) < n THEN n - Len(s) ELSE 0) |-> 0], 1, n)

\* s.ljust(n)[:n] on a string given as its character codes
LjustCut(s, n) ==
    SubSeq(s \o [i \in 1..(IF Len(s) < n THEN n - Len(s) ELSE 0) |-> Space], 1, n)

\* ((ord(c1) & 0xFF) << 8) | (ord(c2) & 0xFF)
CharPair(c1, c2) == (c1 % 256) * 256 + (c2 % 256)

\* block_b with the fields added instead of OR-ed
BlockBSum(c, group_type, address) ==
    LET tp  == IF c.tp # 0 THEN 1 ELSE 0
        pty == c.pty % 32
    IN  (tp % 2) * 1024 + (pty % 32) * 32 + (group_type % 16) * 2 + address

\* block_b of either builder: the fields are OR-ed into one word
BlockB(c, group_type, address) ==
    LET tp  == IF c.tp # 0 THEN 1 ELSE 0
        pty == c.pty % 32
        hi  == (tp % 2) * 1024 + (pty % 32) * 32
        ver == 0
    IN  hi + OrBits(OrBits((group_type % 16) * 2, ver % 2, 5), address, 5)

\* the four data words (block_a, block_b, block_c, block_d) of build_group_0a
Words0A(c, ps_pair_index) ==
    LET ps         == LjustCut(c.program_service_name, 8)
        segment_ch == ps_pair_index % 4
        c1         == ps[segment_ch * 2 + 1]
        c2         == ps[segment_ch * 2 + 2]
    IN  << c.pi_code % 65536, BlockB(c, 0, segment_ch % 4), 0, CharPair(c1, c2) >>

\* build_group_2a reading its four characters one place early
Words2AShifted(c, rt_pair_index) ==
    LET text     == <<Space>> \o LjustCut(c.radiotext, 64)
        pair_idx == rt_pair_index % 16
        c1       == text[pair_idx * 4 + 1]
        c2       == text[pair_idx * 4 + 2]
        c3       == text[pair_idx * 4 + 3]
        c4       == text[pair_idx * 4 + 4]
    IN  << c.pi_code % 65536, BlockB(c, 2, pair_idx % 16), CharPair(c1, c2),
           CharPair(c3, c4) >>

\* the four data words of build_group_2a
Words2A(c, rt_pair_index) ==
    LET text     == LjustCut(c.radiotext, 64)
        pair_idx == rt_pair_index % 16
        c1       == text[pair_idx * 4 + 1]
        c2       == text[pair_idx * 4 + 2]
        c3       == text[pair_idx * 4 + 3]
        c4       == text[pair_idx * 4 + 4]
    IN  << c.pi_code % 65536, BlockB(c, 2, pair_idx % 16), CharPair(c1, c2),
           CharPair(c3, c4) >>

\* blocks = [_rds_block(block_a, RDS_OFFSET_A), ...]; return _pack_bits_from_blocks(blocks)
PackGroup(w) ==
    _pack_bits_from_blocks(<< _rds_block(w[1], RDS_OFFSET_A),
                              _rds_block(w[2], RDS_OFFSET_B),
                              _rds_block(w[3], RDS_OFFSET_C),
                              _rds_block(w[4], RDS_OFFSET_D) >>)

\* the groups of the generator's configurations, computed once
Groups0A == [c \in Configs, i \in 0..3 |-> PackGroup(Words0A(c, i))]

Groups2A == [c \in Configs, i \in 0..15 |-> PackGroup(Words2A(c, i))]

build_group_0a(c, ps_pair_index) ==
    IF c \in Configs THEN Groups0A[c, ps_pair_index % 4]
    ELSE PackGroup(Words0A(c, ps_pair_index))

build_group_2a(c, rt_pair_index) ==
    IF c \in Configs THEN Groups2A[c, rt_pair_index % 16]
    ELSE PackGroup(Words2A(c, rt_pair_index))

-----------------------------------------------------------------------------
(* rds.py: RdsBitstreamGenerator.  st = [ps_index, rt_index, logo_frame,    *)
(* logo_idx] is the object's state; each method is an operator returning    *)
(* its result and the state it leaves.                                      *)

NoLogo == [present |-> FALSE, bits |-> <<>>]

\* _next_logo_chunk with the cursor advanced by max_bits, not by the slice taken
_next_logo_chunk_fixed_step(st, max_bits) ==
    IF ~st.logo_frame.present \/ Len(st.logo_frame.bits) = 0
    THEN [none |-> TRUE, chunk |-> <<>>, from |-> st.logo_idx, logo_idx |-> st.logo_idx]
    ELSE LET len  == Len(st.logo_frame.bits)
             n0   == Min(max_bits, len - st.logo_idx)
             i    == IF n0 <= 0 THEN 0 ELSE st.logo_idx
             n    == IF n0 <= 0 THEN Min(max_bits, len) ELSE n0
         IN  [none |-> FALSE, chunk |-> Slice(st.logo_frame.bits, i, n),
              from |-> i, logo_idx |-> i + max_bits]

\* _next_logo_chunk: [none, chunk, from, logo_idx]; `from` is where the chunk starts
_next_logo_chunk(st, max_bits) ==
    IF ~st.logo_frame.present \/ Len(st.logo_frame.bits) = 0
    THEN [none |-> TRUE, chunk |-> <<>>, from |-> st.logo_idx, logo_idx |-> st.logo_idx]
    ELSE LET len  == Len(st.logo_frame.bits)
             n0   == Min(max_bits, len - st.logo_idx)
             i    == IF n0 <= 0 THEN 0 ELSE st.logo_idx
             n    == IF n0 <= 0 THEN Min(max_bits, len) ELSE n0
         IN  [none |-> FALSE, chunk |-> Slice(st.logo_frame.bits, i, n),
              from |-> i, logo_idx |-> i + n]

\* next_group_bits with rt_index advanced without the `% 16`
next_group_bits_no_wrap(c, st) ==
    LET lc == IF (st.ps_index % 5) = 0 /\ st.logo_frame.present
              THEN _next_logo_chunk(st, LOGO_CHUNK_BITS)
              ELSE [none |-> TRUE, chunk |-> <<>>, from |-> 0, logo_idx |-> st.logo_idx]
    IN  IF ~lc.none
        THEN [bits |-> lc.chunk, kind |-> "logo", seg |-> lc.from,
              st |-> [st EXCEPT !.logo_idx = lc.logo_idx]]
        ELSE IF (st.ps_index % 3) # 2
        THEN [bits |-> build_group_0a(c, st.ps_index % 4), kind |-> "0A",
              seg |-> st.ps_index % 4,
              st |-> [st EXCEPT !.ps_index = (st.ps_index + 1) % 4]]
        ELSE [bits |-> build_group_2a(c, st.rt_index % 16), kind |-> "2A",
              seg |-> st.rt_index % 16,
              st |-> [st EXCEPT !.rt_index = st.rt_index + 1]]

\* next_group_bits with ps_index advanced after a 2A group as well
next_group_bits_ps_after_2a(c, st) ==
    LET lc == IF (st.ps_index % 5) = 0 /\ st.logo_frame.present
              THEN _next_logo_chunk(st, LOGO_CHUNK_BITS)
              ELSE [none |-> TRUE, chunk |-> <<>>, from |-> 0, logo_idx |-> st.logo_idx]
    IN  IF ~lc.none
        THEN [bits |-> lc.chunk, kind |-> "logo", seg |-> lc.from,
              st |-> [st EXCEPT !.logo_idx = lc.logo_idx]]
        ELSE IF (st.ps_index % 3) # 2
        THEN [bits |-> build_group_0a(c, st.ps_index % 4), kind |-> "0A",
              seg |-> st.ps_index % 4,
              st |-> [st EXCEPT !.ps_index = (st.ps_index + 1) % 4]]
        ELSE [bits |-> build_group_2a(c, st.rt_index % 16), kind |-> "2A",
              seg |-> st.rt_index % 16,
              st |-> [st EXCEPT !.rt_index = (st.rt_index + 1) % 16,
                                !.ps_index = (st.ps_index + 1) % 4]]

\* next_group_bits: [bits, kind, seg, st]
next_group_bits(c, st) ==
    LET lc == IF (st.ps_index % 5) = 0 /\ st.logo_frame.present
              THEN _next_logo_chunk(st, LOGO_CHUNK_BITS)
              ELSE [none |-> TRUE, chunk |-> <<>>, from |-> 0, logo_idx |-> st.logo_idx]
    IN  IF ~lc.none
        THEN [bits |-> lc.chunk, kind |-> "logo", seg |-> lc.from,
              st |-> [st EXCEPT !.logo_idx = lc.logo_idx]]
        ELSE IF (st.ps_index % 3) # 2
        THEN [bits |-> build_group_0a(c, st.ps_index % 4), kind |-> "0A",
              seg |-> st.ps_index % 4,
              st |-> [st EXCEPT !.ps_index = (st.ps_index + 1) % 4]]
        ELSE [bits |-> build_group_2a(c, st.rt_index % 16), kind |-> "2A",
              seg |-> st.rt_index % 16,
              st |-> [st EXCEPT !.rt_index = (st.rt_index + 1) % 16]]

\* a while body that appends the whole group: the slice `group[:n]` left out
generate_bits_body_whole_group(c, L) ==
    LET group == next_group_bits(c, L.st)
        n     == Len(group.bits)
    IN  [st |-> group.st, out |-> L.out \o Take(group.bits, n),
         filled |-> L.filled + n, total |-> L.total,
         bits |-> L.bits \o group.bits, last |-> Len(group.bits),
         kind |-> group.kind, seg |-> group.seg, group |-> group.bits]

\* one pass of generate_bits' while body on L = [st, out, filled, total, bits, last]
\* (bits, last: the groups fetched so far, concatenated, and the last one's length)
generate_bits_body(c, L) ==
    LET group == next_group_bits(c, L.st)
        n     == Min(Len(group.bits), L.total - L.filled)
    IN  [st |-> group.st, out |-> L.out \o Take(group.bits, n),
         filled |-> L.filled + n, total |-> L.total,
         bits |-> L.bits \o group.bits, last |-> Len(group.bits),
         kind |-> group.kind, seg |-> group.seg, group |-> group.bits]

LoopEntry(st, total) ==
    [st |-> st, out |-> <<>>, filled |-> 0, total |-> total, bits |-> <<>>,
     last |-> 0, kind |-> "none", seg |-> 0, group |-> <<>>]

RECURSIVE generate_bits_loop(_, _)
\* while filled < total_bits: ...
generate_bits_loop(c, L) ==
    IF L.filled < L.total THEN generate_bits_loop(c, generate_bits_body(c, L)) ELSE L

\* generate_bits(total_bits) run to its return: [out, st, ...]
generate_bits(c, st, total) == generate_bits_loop(c, LoopEntry(st, total))

FreshGenerator ==
    [ps_index |-> 0, rt_index |-> 0, logo_frame |-> NoLogo, logo_idx |-> 0]

-----------------------------------------------------------------------------
(* logo.py: load_logo_bits on the raster a = [w, h, pix] that np.array(img) *)
(* holds after the resize (pix: the grey values, row-major)                 *)

RECURSIVE SumRange(_, _, _)
\* q[lo] + ... + q[hi] (halving, to keep the evaluation shallow)
SumRange(q, lo, hi) ==
    IF lo > hi THEN 0
    ELSE IF lo = hi THEN q[lo]
    ELSE LET mid == (lo + hi) \div 2
         IN  SumRange(q, lo, mid) + SumRange(q, mid + 1, hi)

\* sum(q)
SumSeq(q) == SumRange(q, 1, Len(q))

\* bits = (arr >= arr.mean()).astype(np.uint8), flattened
Threshold(pix) ==
    LET total == SumSeq(pix)
    IN  [i \in 1..Len(pix) |-> IF pix[i] * Len(pix) >= total THEN 1 ELSE 0]

\* payload_bytes: the loop `acc = (acc << 1) | b` closes a byte after every 8th bit,
\* and a last partial byte is shifted left by 8 - cnt; byte j holds bits 8j-7 .. 8j
PayloadBytes(bits) ==
    [j \in 1..((Len(bits) + 7) \div 8) |->
        SumSeq([k \in 1..8 |->
                  IF 8 * (j - 1) + k <= Len(bits)
                  THEN bits[8 * (j - 1) + k] * Pow2(8 - k) ELSE 0])]

load_logo_bits(a) ==
    LET w            == Min(RDS2_LOGO_MAX_W, IF a.w < 1 THEN 1 ELSE a.w)
        h            == Min(RDS2_LOGO_MAX_H, IF a.h < 1 THEN 1 ELSE a.h)
        header0      == BitsMSB(RDS2_LOGO_MAGIC, 8) \o BitsMSB(w, 7) \o BitsMSB(h, 6)
                        \o BitsMSB(0, 3)
        payload_bits == Threshold(a.pix)
        checksum     == SumSeq(PayloadBytes(payload_bits)) % 65536
        footer       == <<>>
        \* put(checksum, 16) appends to `header`, the list put() closes over
        header       == header0 \o BitsMSB(checksum, 16)
    IN  header \o payload_bits \o footer

-----------------------------------------------------------------------------
(* modem.py: differential_encode *)

RECURSIVE EncodeLoop(_, _, _)
\* for i, b in enumerate(bits): if b: phase = -phase; out[i] = phase
EncodeLoop(bits, phase, symbols) ==
    IF bits = <<>> THEN symbols
    ELSE LET ph == IF Head(bits) # 0 THEN -phase ELSE phase
         IN  EncodeLoop(Tail(bits), ph, Append(symbols, ph))

\* the encoder started from phase -1
differential_encode_from_minus(bits) == EncodeLoop(bits, -1, <<>>)

\* phase = 1 before the loop
differential_encode(bits) == EncodeLoop(bits, 1, <<>>)

-----------------------------------------------------------------------------
(* mpx.py / modem.py: the sample clock of one composed block, and cli.py's   *)
(* bit budget                                                               *)

\* np.arange(n): the indices first, first + 1, ..., first + n - 1
Arange(n) == [first |-> 0, count |-> n]

\* make_mpx: t = np.arange(num_samples) / fs feeds the 19 kHz and 38 kHz terms,
\* bpsk_subcarrier: t = np.arange(len(shaped)) / fs feeds the RDS carrier
make_mpx(num_samples, nbits) ==
    [frames |-> num_samples, nbits |-> nbits, t |-> Arange(num_samples),
     rds_t |-> Arange(num_samples)]

CeilDiv(a, b) == (a + b - 1) \div b

\* int(math.ceil(frames / fs * RDS_BITRATE)) + 208, RDS_BITRATE = 1187.5 = 2375/2
BitsNeeded(frames, rate) == CeilDiv(frames * 2375, rate * 2) + 208

\* int(math.ceil(total_seconds * RDS_BITRATE * 1.1)), total_seconds = n / fs;
\* 1187.5 * 1.1 = 1306.25 = 5225/4
InitialBits(n, rate) == CeilDiv(n * 5225, rate * 4)

\* int(math.ceil(2.0 * RDS_BITRATE))
RefillBits == 2375

\* queue.Queue(maxsize=8) of file/tone mode, queue.Queue(maxsize=16) of capture mode
QueueMax(m) == IF m = "file" THEN 8 ELSE 16

\* the None put on q_out as terminal sentinel
Sentinel == [none |-> TRUE, k |-> 0, start |-> 0, bit0 |-> 0, mpx |-> make_mpx(0, 0)]

-----------------------------------------------------------------------------
(* Inputs of the model *)

\* grey rasters: 2x2, 8x8 (a 104-bit frame), 12x8 (a 136-bit frame)
Raster(w, h) == [w |-> w, h |-> h, pix |-> [i \in 1..(w * h) |-> (i * 37) % 256]]

\* what a caller hands to set_logo_bits: None, an empty array, frames of load_logo_bits
LogoInputs ==
    { NoLogo, [present |-> TRUE, bits |-> <<>>] }
    \cup { [present |-> TRUE, bits |-> load_logo_bits(Raster(d[1], d[2]))] :
           d \in { <<2, 2>>, <<8, 8>>, <<12, 8>> } }

\* the total_bits a caller passes to generate_bits
GenSizes == { 0, 1, 104, 130, 250 }

-----------------------------------------------------------------------------
(* RdsBitstreamGenerator: state machine *)

GenState ==
    [ps_index |-> ps_index, rt_index |-> rt_index, logo_frame |-> logo_frame,
     logo_idx |-> logo_idx]

NoGroup == [kind |-> "none", seg |-> 0, bits |-> <<>>]

\* __init__
GenInit ==
    /\ cfg \in Configs
    /\ ps_index = 0
    /\ rt_index = 0
    /\ logo_frame = NoLogo
    /\ logo_idx = 0
    /\ gen_pc = "idle"
    /\ total_bits = 0
    /\ filled = 0
    /\ out = <<>>
    /\ call_bits = <<>>
    /\ call_last = 0
    /\ last_group = NoGroup
    /\ n_direct = 0

\* the generator is not under test: one fixed, idle object
GenIdle ==
    /\ cfg = DefaultConfig
    /\ ps_index = 0
    /\ rt_index = 0
    /\ logo_frame = NoLogo
    /\ logo_idx = 0
    /\ gen_pc = "idle"
    /\ total_bits = 0
    /\ filled = 0
    /\ out = <<>>
    /\ call_bits = <<>>
    /\ call_last = 0
    /\ last_group = NoGroup
    /\ n_direct = 0

\* set_logo_bits(bits)
SetLogoBits ==
    /\ gen_pc = "idle"
    /\ \E bits \in LogoInputs :
          /\ logo_frame' = bits
          /\ logo_idx' = 0
    /\ n_direct' = MaxDirect
    /\ UNCHANGED <<cfg, ps_index, rt_index, gen_pc, total_bits, filled, out,
                   call_bits, call_last, last_group>>
    /\ UNCHANGED <<resVars, crcVars, logoVars, playVars, bldVars, encVars, mpxVars, webVars>>

\* next_group_bits(), called by the generator's user
NextGroupBits ==
    /\ gen_pc = "idle"
    /\ LET g == next_group_bits(cfg, GenState)
       IN  /\ ps_index' = g.st.ps_index
           /\ rt_index' = g.st.rt_index
           /\ logo_idx' = g.st.logo_idx
           /\ last_group' = [kind |-> g.kind, seg |-> g.seg, bits |-> g.bits]
    /\ n_direct' = Min(n_direct + 1, MaxDirect)
    /\ UNCHANGED <<cfg, logo_frame, gen_pc, total_bits, filled, out, call_bits,
                   call_last>>
    /\ UNCHANGED <<resVars, crcVars, logoVars, playVars, bldVars, encVars, mpxVars, webVars>>

\* generate_bits(total_bits): entry, up to the first test of the while condition
GenerateBitsCall ==
    /\ gen_pc = "idle"
    /\ \E n \in GenSizes : total_bits' = n
    /\ filled' = 0
    /\ out' = <<>>
    /\ call_bits' = <<>>
    /\ call_last' = 0
    /\ gen_pc' = "loop"
    /\ n_direct' = MaxDirect
    /\ UNCHANGED <<cfg, ps_index, rt_index, logo_frame, logo_idx, last_group>>
    /\ UNCHANGED <<resVars, crcVars, logoVars, playVars, bldVars, encVars, mpxVars, webVars>>

\* generate_bits: one pass of the while body (filled < total_bits)
GenerateBitsLoop ==
    /\ gen_pc = "loop"
    /\ filled < total_bits
    /\ LET L == generate_bits_body(cfg,
                    [st |-> GenState, out |-> out, filled |-> filled,
                     total |-> total_bits, bits |-> call_bits, last |-> call_last])
       IN  /\ ps_index' = L.st.ps_index
           /\ rt_index' = L.st.rt_index
           /\ logo_idx' = L.st.logo_idx
           /\ out' = L.out
           /\ filled' = L.filled
           /\ call_bits' = L.bits
           /\ call_last' = L.last
           /\ last_group' = [kind |-> L.kind, seg |-> L.seg, bits |-> L.group]
    /\ UNCHANGED <<cfg, logo_frame, gen_pc, total_bits, n_direct>>
    /\ UNCHANGED <<resVars, crcVars, logoVars, playVars, bldVars, encVars, mpxVars, webVars>>

\* generate_bits: the while condition fails, `return out`; the locals are gone
GenerateBitsReturn ==
    /\ gen_pc = "loop"
    /\ ~(filled < total_bits)
    /\ gen_pc' = "idle"
    /\ total_bits' = 0
    /\ filled' = 0
    /\ out' = <<>>
    /\ call_bits' = <<>>
    /\ call_last' = 0
    /\ UNCHANGED <<cfg, ps_index, rt_index, logo_frame, logo_idx, last_group, n_direct>>
    /\ UNCHANGED <<resVars, crcVars, logoVars, playVars, bldVars, encVars, mpxVars, webVars>>

-----------------------------------------------------------------------------
(* generate_bits(a); generate_bits(b) on one object, and generate_bits(a + b) *)
(* on another built alike                                                     *)

SplitSizes == { 0, 1, 50, 54, 104, 130, 208 }

ResInit ==
    /\ split \in [logo : LogoInputs, a : SplitSizes, b : SplitSizes]
    /\ parts = [done |-> FALSE, first |-> <<>>, second |-> <<>>, whole |-> <<>>]

ResIdle ==
    /\ split = [logo |-> NoLogo, a |-> 0, b |-> 0]
    /\ parts = [done |-> FALSE, first |-> <<>>, second |-> <<>>, whole |-> <<>>]

\* g = RdsBitstreamGenerator(cfg); g.set_logo_bits(logo) unless logo is None
Constructed(logo) ==
    IF logo.present THEN [FreshGenerator EXCEPT !.logo_frame = logo] ELSE FreshGenerator

\* x = g.generate_bits(a); y = g.generate_bits(b); z = g2.generate_bits(a + b)
GenerateTwice ==
    /\ ~parts.done
    /\ LET r1 == generate_bits(cfg, Constructed(split.logo), split.a)
           r2 == generate_bits(cfg, r1.st, split.b)
           r  == generate_bits(cfg, Constructed(split.logo), split.a + split.b)
       IN  parts' = [done |-> TRUE, first |-> r1.out, second |-> r2.out,
                     whole |-> r.out]
    /\ UNCHANGED split
    /\ UNCHANGED <<genVars, crcVars, logoVars, playVars, bldVars, encVars, mpxVars, webVars>>

-----------------------------------------------------------------------------
(* _rds_block: driver *)

\* every word of one byte, every multiple of 256, and two more
Words16 == (0..255) \cup { 256 * k : k \in 1..255 } \cup { 4660, 65535 }

Offsets == { RDS_OFFSET_A, RDS_OFFSET_B, RDS_OFFSET_C, RDS_OFFSET_D }

CrcInit ==
    /\ word16 \in Words16
    /\ offset_word = 0
    /\ block = [done |-> FALSE, word |-> 0, cw |-> 0]

CrcIdle ==
    /\ word16 = 0
    /\ offset_word = 0
    /\ block = [done |-> FALSE, word |-> 0, cw |-> 0]

\* _rds_block(word16, offset_word)
RdsBlock ==
    /\ ~block.done
    /\ \E off \in Offsets :
          /\ offset_word' = off
          /\ block' = [done |-> TRUE, word |-> _rds_block(word16, off).word,
                       cw |-> _rds_block(word16, off).cw]
    /\ UNCHANGED word16
    /\ UNCHANGED <<genVars, resVars, logoVars, playVars, bldVars, encVars, mpxVars, webVars>>

-----------------------------------------------------------------------------
(* build_group_0a / build_group_2a: driver *)

NotBuilt == [done |-> FALSE, type |-> "none", bits |-> <<>>]

BldInit ==
    /\ bcfg \in BuilderConfigs
    /\ pair_index \in 0..15
    /\ built = NotBuilt

BldIdle ==
    /\ bcfg = DefaultConfig
    /\ pair_index = 0
    /\ built = NotBuilt

\* build_group_0a(bcfg, pair_index)
BuildGroup0A ==
    /\ ~built.done
    /\ built' = [done |-> TRUE, type |-> "0A", bits |-> build_group_0a(bcfg, pair_index)]
    /\ UNCHANGED <<bcfg, pair_index>>
    /\ UNCHANGED <<genVars, resVars, crcVars, logoVars, playVars, encVars, mpxVars, webVars>>

\* build_group_2a(bcfg, pair_index)
BuildGroup2A ==
    /\ ~built.done
    /\ built' = [done |-> TRUE, type |-> "2A", bits |-> build_group_2a(bcfg, pair_index)]
    /\ UNCHANGED <<bcfg, pair_index>>
    /\ UNCHANGED <<genVars, resVars, crcVars, logoVars, playVars, encVars, mpxVars, webVars>>

-----------------------------------------------------------------------------
(* differential_encode: driver *)

\* every bit sequence of up to MaxEncBits bits
EncInputs == UNION { [1..n -> {0, 1}] : n \in 0..MaxEncBits }

EncInit ==
    /\ enc_bits \in EncInputs
    /\ enc_out = [done |-> FALSE, symbols |-> <<>>]

EncIdle ==
    /\ enc_bits = <<>>
    /\ enc_out = [done |-> FALSE, symbols |-> <<>>]

\* differential_encode(enc_bits)
DifferentialEncode ==
    /\ ~enc_out.done
    /\ enc_out' = [done |-> TRUE, symbols |-> differential_encode(enc_bits)]
    /\ UNCHANGED enc_bits
    /\ UNCHANGED <<genVars, resVars, crcVars, logoVars, playVars, bldVars, mpxVars, webVars>>

-----------------------------------------------------------------------------
(* load_logo_bits: driver *)

RECURSIVE Patterns(_)
\* every sequence of n grey values, each black (0) or white (255)
Patterns(n) ==
    IF n = 0 THEN { <<>> }
    ELSE { <<g>> \o p : g \in {0, 255}, p \in Patterns(n - 1) }

Rasters ==
    UNION { { [w |-> w, h |-> h, pix |-> p] : p \in Patterns(w * h) } :
            w \in 1..MaxLogoW, h \in 1..MaxLogoH }

LogoInit ==
    /\ arr \in Rasters \cup { Raster(16, 8), Raster(RDS2_LOGO_MAX_W, RDS2_LOGO_MAX_H) }
    /\ all_bits = [done |-> FALSE, bits |-> <<>>]

LogoIdle ==
    /\ arr = Raster(1, 1)
    /\ all_bits = [done |-> FALSE, bits |-> <<>>]

\* load_logo_bits(path), from np.array(img) on
LoadLogoBits ==
    /\ ~all_bits.done
    /\ all_bits' = [done |-> TRUE, bits |-> load_logo_bits(arr)]
    /\ UNCHANGED arr
    /\ UNCHANGED <<genVars, resVars, crcVars, playVars, bldVars, encVars, mpxVars, webVars>>

-----------------------------------------------------------------------------
(* cli.py: play.  The state starts where the producer (worker) thread has   *)
(* been started and the main thread is about to enter the `with` block.     *)
(* The generator appears here only through the number of bits it returns.   *)

PlayRates == { 8000, 48000, 192000 }

BlockSizes == { 1024, 4096, 16384 }

StereoLens(bs) == { 0, 1, bs + 1, MaxBlocks * bs }

PlayInit ==
    /\ mode \in { "file", "capture" }
    /\ fs \in PlayRates
    /\ blocksize \in BlockSizes
    /\ stereo_len \in IF mode = "file" THEN StereoLens(blocksize) ELSE { 0 }
    /\ src_given \in IF mode = "capture" THEN BOOLEAN ELSE { FALSE }
    /\ duration_set \in IF mode = "capture" THEN BOOLEAN ELSE { FALSE }
    /\ time_up = FALSE
    /\ idx = 0
    /\ rds_len = IF mode = "file" THEN InitialBits(stereo_len, fs) ELSE 0
    /\ prod_alive = TRUE
    /\ q_in = <<>>
    /\ n_captured = 0
    /\ q_out = <<>>
    /\ stream = "unopened"
    /\ delivered = <<>>
    /\ n_put = 0
    /\ n_silence = 0
    /\ silent_before = <<>>
    /\ bits_taken = 0

PlayIdle ==
    /\ mode = "file"
    /\ fs = 192000
    /\ blocksize = 4096
    /\ stereo_len = 0
    /\ src_given = FALSE
    /\ duration_set = FALSE
    /\ time_up = FALSE
    /\ idx = 0
    /\ rds_len = 0
    /\ prod_alive = FALSE
    /\ q_in = <<>>
    /\ n_captured = 0
    /\ q_out = <<>>
    /\ stream = "unopened"
    /\ delivered = <<>>
    /\ n_put = 0
    /\ n_silence = 0
    /\ silent_before = <<>>
    /\ bits_taken = 0

\* the block of make_mpx(stereo[start : start + frames], rds_bits=bits_block), where
\* bits_block is nbits long and begins at bit bit0 of the bits generated
MpxBlock(k, start, frames, nbits, bit0) ==
    [none |-> FALSE, k |-> k, start |-> start, bit0 |-> bit0,
     mpx |-> make_mpx(frames, nbits)]

\* a producer that never refills rds_bits
ProducerStepNoRefill ==
    /\ mode = "file"
    /\ prod_alive
    /\ idx < stereo_len
    /\ Len(q_out) < QueueMax(mode)
    /\ LET end         == Min(idx + blocksize, stereo_len)
           bits_needed == BitsNeeded(end - idx, fs)
           have        == rds_len
           nbits       == Min(bits_needed, have)
       IN  /\ rds_len' = have - nbits
           /\ q_out' = Append(q_out, MpxBlock(n_put + 1, idx, end - idx, nbits, bits_taken))
           /\ bits_taken' = bits_taken + nbits
           /\ idx' = end
    /\ n_put' = n_put + 1
    /\ UNCHANGED <<mode, fs, blocksize, stereo_len, src_given, duration_set, time_up,
                   prod_alive, q_in, n_captured, stream, delivered, n_silence>>
    /\ UNCHANGED silent_before
    /\ UNCHANGED <<genVars, resVars, crcVars, logoVars, bldVars, encVars, mpxVars, webVars>>

\* producer: one pass of `while idx < stereo.shape[0]`, up to q_out.put(mpx, block=True)
ProducerStep ==
    /\ mode = "file"
    /\ prod_alive
    /\ idx < stereo_len
    /\ Len(q_out) < QueueMax(mode)
    /\ LET end         == Min(idx + blocksize, stereo_len)
           bits_needed == BitsNeeded(end - idx, fs)
           have        == IF rds_len < bits_needed THEN rds_len + RefillBits ELSE rds_len
           nbits       == Min(bits_needed, have)
       IN  /\ rds_len' = have - nbits
           /\ q_out' = Append(q_out, MpxBlock(n_put + 1, idx, end - idx, nbits, bits_taken))
           /\ bits_taken' = bits_taken + nbits
           /\ idx' = end
    /\ n_put' = n_put + 1
    /\ UNCHANGED <<mode, fs, blocksize, stereo_len, src_given, duration_set, time_up,
                   prod_alive, q_in, n_captured, stream, delivered, n_silence>>
    /\ UNCHANGED silent_before
    /\ UNCHANGED <<genVars, resVars, crcVars, logoVars, bldVars, encVars, mpxVars, webVars>>

\* a producer whose None overtakes the blocks still on the queue
ProducerFinishFirst ==
    /\ mode = "file"
    /\ prod_alive
    /\ ~(idx < stereo_len)
    /\ Len(q_out) < QueueMax(mode)
    /\ q_out' = <<Sentinel>> \o q_out
    /\ prod_alive' = FALSE
    /\ UNCHANGED <<mode, fs, blocksize, stereo_len, src_given, duration_set, time_up,
                   idx, rds_len, q_in, n_captured, stream, delivered, n_put, n_silence>>
    /\ UNCHANGED <<silent_before, bits_taken>>
    /\ UNCHANGED <<genVars, resVars, crcVars, logoVars, bldVars, encVars, mpxVars, webVars>>

\* producer: the loop is over, q_out.put(None), and the thread ends
ProducerFinish ==
    /\ mode = "file"
    /\ prod_alive
    /\ ~(idx < stereo_len)
    /\ Len(q_out) < QueueMax(mode)
    /\ q_out' = Append(q_out, Sentinel)
    /\ prod_alive' = FALSE
    /\ UNCHANGED <<mode, fs, blocksize, stereo_len, src_given, duration_set, time_up,
                   idx, rds_len, q_in, n_captured, stream, delivered, n_put, n_silence>>
    /\ UNCHANGED <<silent_before, bits_taken>>
    /\ UNCHANGED <<genVars, resVars, crcVars, logoVars, bldVars, encVars, mpxVars, webVars>>

\* worker_stop_condition(start_time)
WorkerStopCondition == src_given \/ (duration_set /\ time_up)

\* time passes: the duration has elapsed
DurationElapses ==
    /\ mode = "capture"
    /\ duration_set
    /\ ~time_up
    /\ time_up' = TRUE
    /\ UNCHANGED <<mode, fs, blocksize, stereo_len, src_given, duration_set, idx,
                   rds_len, prod_alive, q_in, n_captured, q_out, stream, delivered,
                   n_put, n_silence>>
    /\ UNCHANGED <<silent_before, bits_taken>>
    /\ UNCHANGED <<genVars, resVars, crcVars, logoVars, bldVars, encVars, mpxVars, webVars>>

\* in_callback: q_in.put_nowait(data.copy()), a full queue drops the block
InCallback ==
    /\ mode = "capture"
    /\ stream \in { "active", "stopped" }
    /\ n_captured < MaxCaptured
    /\ n_captured' = n_captured + 1
    /\ q_in' = IF Len(q_in) < QueueMax(mode)
               THEN Append(q_in, [k |-> n_captured + 1, frames |-> blocksize])
               ELSE q_in
    /\ UNCHANGED <<mode, fs, blocksize, stereo_len, src_given, duration_set, time_up,
                   idx, rds_len, prod_alive, q_out, stream, delivered, n_put,
                   n_silence>>
    /\ UNCHANGED <<silent_before, bits_taken>>
    /\ UNCHANGED <<genVars, resVars, crcVars, logoVars, bldVars, encVars, mpxVars, webVars>>

\* worker: the stop condition holds, q_out.put(None), return
WorkerStop ==
    /\ mode = "capture"
    /\ prod_alive
    /\ WorkerStopCondition
    /\ Len(q_out) < QueueMax(mode)
    /\ q_out' = Append(q_out, Sentinel)
    /\ prod_alive' = FALSE
    /\ UNCHANGED <<mode, fs, blocksize, stereo_len, src_given, duration_set, time_up,
                   idx, rds_len, q_in, n_captured, stream, delivered, n_put, n_silence>>
    /\ UNCHANGED <<silent_before, bits_taken>>
    /\ UNCHANGED <<genVars, resVars, crcVars, logoVars, bldVars, encVars, mpxVars, webVars>>

\* worker: one pass that got a block from q_in, up to q_out.put(mpx, block=True)
WorkerStep ==
    /\ mode = "capture"
    /\ prod_alive
    /\ ~WorkerStopCondition
    /\ q_in # <<>>
    /\ Len(q_out) < QueueMax(mode)
    /\ LET frames_local == Head(q_in).frames
           bits_needed  == BitsNeeded(frames_local, fs)
       IN  /\ q_out' = Append(q_out, MpxBlock(n_put + 1, idx, frames_local, bits_needed,
                                              bits_taken))
           /\ bits_taken' = bits_taken + bits_needed
           /\ idx' = idx + frames_local
    /\ q_in' = Tail(q_in)
    /\ n_put' = n_put + 1
    /\ UNCHANGED <<mode, fs, blocksize, stereo_len, src_given, duration_set, time_up,
                   rds_len, prod_alive, n_captured, stream, delivered, n_silence>>
    /\ UNCHANGED silent_before
    /\ UNCHANGED <<genVars, resVars, crcVars, logoVars, bldVars, encVars, mpxVars, webVars>>

\* main thread: `with sd.OutputStream(...)` is entered, the stream starts
MainOpenStream ==
    /\ stream = "unopened"
    /\ stream' = "active"
    /\ UNCHANGED <<mode, fs, blocksize, stereo_len, src_given, duration_set, time_up,
                   idx, rds_len, prod_alive, q_in, n_captured, q_out, delivered, n_put,
                   n_silence>>
    /\ UNCHANGED <<silent_before, bits_taken>>
    /\ UNCHANGED <<genVars, resVars, crcVars, logoVars, bldVars, encVars, mpxVars, webVars>>

\* main thread: `while prod_thread.is_alive()` ends, the `with` block closes the stream
MainCloseStream ==
    /\ stream \in { "active", "stopped" }
    /\ ~prod_alive
    /\ stream' = "closed"
    /\ UNCHANGED <<mode, fs, blocksize, stereo_len, src_given, duration_set, time_up,
                   idx, rds_len, prod_alive, q_in, n_captured, q_out, delivered, n_put,
                   n_silence>>
    /\ UNCHANGED <<silent_before, bits_taken>>
    /\ UNCHANGED <<genVars, resVars, crcVars, logoVars, bldVars, encVars, mpxVars, webVars>>

\* callback / out_callback: q_out.get gave a block, copied into outdata
CallbackBlock ==
    /\ stream = "active"
    /\ q_out # <<>>
    /\ ~Head(q_out).none
    /\ delivered' = Append(delivered, Head(q_out))
    /\ silent_before' = Append(silent_before, n_silence)
    /\ q_out' = Tail(q_out)
    /\ UNCHANGED bits_taken
    /\ UNCHANGED <<mode, fs, blocksize, stereo_len, src_given, duration_set, time_up,
                   idx, rds_len, prod_alive, q_in, n_captured, stream, n_put, n_silence>>
    /\ UNCHANGED <<genVars, resVars, crcVars, logoVars, bldVars, encVars, mpxVars, webVars>>

\* a callback that stops the stream on queue.Empty
CallbackEmptyStops ==
    /\ stream = "active"
    /\ q_out = <<>>
    /\ n_silence' = Min(n_silence + 1, MaxSilence)
    /\ stream' = "stopped"
    /\ UNCHANGED <<mode, fs, blocksize, stereo_len, src_given, duration_set, time_up,
                   idx, rds_len, prod_alive, q_in, n_captured, q_out, delivered,
                   n_put>>
    /\ UNCHANGED <<silent_before, bits_taken>>
    /\ UNCHANGED <<genVars, resVars, crcVars, logoVars, bldVars, encVars, mpxVars, webVars>>

\* callback / out_callback: queue.Empty after the timeout, outdata[:] = 0
CallbackEmpty ==
    /\ stream = "active"
    /\ q_out = <<>>
    /\ n_silence' = Min(n_silence + 1, MaxSilence)
    /\ UNCHANGED <<mode, fs, blocksize, stereo_len, src_given, duration_set, time_up,
                   idx, rds_len, prod_alive, q_in, n_captured, q_out, stream, delivered,
                   n_put>>
    /\ UNCHANGED <<silent_before, bits_taken>>
    /\ UNCHANGED <<genVars, resVars, crcVars, logoVars, bldVars, encVars, mpxVars, webVars>>

\* callback / out_callback: q_out.get gave None, raise sd.CallbackStop
CallbackSentinel ==
    /\ stream = "active"
    /\ q_out # <<>>
    /\ Head(q_out).none
    /\ q_out' = Tail(q_out)
    /\ stream' = "stopped"
    /\ UNCHANGED <<mode, fs, blocksize, stereo_len, src_given, duration_set, time_up,
                   idx, rds_len, prod_alive, q_in, n_captured, delivered, n_put,
                   n_silence>>
    /\ UNCHANGED <<silent_before, bits_taken>>
    /\ UNCHANGED <<genVars, resVars, crcVars, logoVars, bldVars, encVars, mpxVars, webVars>>

-----------------------------------------------------------------------------
(* make_mpx (mpx.py 26-62): the composition of the MPX block.  Samples are  *)
(* integers: the low-passed stereo samples, the levels and the RDS          *)
(* waveforms in thousandths, the sums and products in millionths.  The      *)
(* sample rate is 76000, where both carriers are exact on every sample.     *)
(* The FIR low-pass and the pulse shaping of bpsk_subcarrier are outside    *)
(* the model: its inputs are their outputs.                                 *)

\* at most this many samples in a block
MaxSamples == 3

\* at most this many samples in a waveform bpsk_subcarrier returned
MaxWave == 5

\* np.sin(2 * np.pi * PILOT_HZ * t) at t = i / 76000 : sin(i pi / 2)
PilotCarrier(i) == <<0, 1, 0, -1>>[(i % 4) + 1]

\* np.cos(2 * np.pi * STEREO_SUBCARRIER_HZ * t) at t = i / 76000 : cos(i pi)
StereoCarrier(i) == IF i % 2 = 0 THEN 1 ELSE -1

\* lpr = np.mean(stereo, axis=1)
Lpr(stereo) ==
    [i \in 1..Len(stereo) |-> ((stereo[i][1] + stereo[i][2]) \div 2) * 1000]

\* lmr = stereo[:, 0] - stereo[:, 1]
Lmr(stereo) == [i \in 1..Len(stereo) |-> (stereo[i][1] - stereo[i][2]) * 1000]

\* pilot = pilot_level * np.sin(2 * np.pi * PILOT_HZ * t)
Pilot(num_samples, pilot_level) ==
    [i \in 1..num_samples |-> pilot_level * PilotCarrier(i - 1) * 1000]

\* dsb = lmr * stereo_sub
Dsb(stereo) == [i \in 1..Len(stereo) |-> Lmr(stereo)[i] * StereoCarrier(i - 1)]

\* a[:n] += rhs on a numpy array: the shapes must agree, or rhs must have
\* length 1 (broadcast); otherwise ValueError
SliceAdd(bus, n, rhs) ==
    IF bus.err THEN bus
    ELSE IF Len(rhs) = n
    THEN [err |-> FALSE,
          v |-> [i \in 1..Len(bus.v) |-> IF i <= n THEN bus.v[i] + rhs[i] ELSE bus.v[i]]]
    ELSE IF Len(rhs) = 1
    THEN [err |-> FALSE,
          v |-> [i \in 1..Len(bus.v) |-> IF i <= n THEN bus.v[i] + rhs[1] ELSE bus.v[i]]]
    ELSE [err |-> TRUE, v |-> bus.v]

\* rds_wave without the slice
WaveSliceWhole(wave, num_samples) == wave

\* rds_wave[:num_samples]
WaveSlice(wave, num_samples) == Take(wave, num_samples)

\* rds[: len(wave)] += level * wave[:num_samples]
AddWave(bus, level, wave, num_samples) ==
    LET rhs == WaveSlice(wave, num_samples)
    IN  SliceAdd(bus, Min(Len(wave), num_samples),
                 [i \in 1..Len(rhs) |-> level * rhs[i]])

\* the rds bus: np.zeros(num_samples), then the 57 kHz waveform, then the
\* three RDS2 waveforms when enable_rds2
RdsBus(a) ==
    LET N    == Len(a.stereo)
        bus0 == [err |-> FALSE, v |-> [i \in 1..N |-> 0]]
        bus1 == IF a.has_bits THEN AddWave(bus0, a.rds_level, a.waves[1], N) ELSE bus0
        on2  == a.enable_rds2 /\ a.has_bits
        bus2 == IF on2 THEN AddWave(bus1, a.rds2_level, a.waves[2], N) ELSE bus1
        bus3 == IF on2 THEN AddWave(bus2, a.rds2_level, a.waves[3], N) ELSE bus2
    IN  IF on2 THEN AddWave(bus3, a.rds2_level, a.waves[4], N) ELSE bus3

\* np.clip(signal, -peak, peak) with peak = 0.999
clamp_audio(signal) ==
    [i \in 1..Len(signal) |->
        IF signal[i] > 999000 THEN 999000
        ELSE IF signal[i] < -999000 THEN -999000 ELSE signal[i]]

\* mpx = lpr + pilot + dsb + rds ; return clamp_audio(mpx)
MakeMpxSamples(a) ==
    LET N   == Len(a.stereo)
        bus == RdsBus(a)
    IN  IF bus.err
        THEN [done |-> TRUE, err |-> TRUE, lpr |-> Lpr(a.stereo), rds |-> <<>>, mpx |-> <<>>]
        ELSE [done |-> TRUE, err |-> FALSE, lpr |-> Lpr(a.stereo), rds |-> bus.v,
              mpx |-> clamp_audio([i \in 1..N |->
                          Lpr(a.stereo)[i] + Pilot(N, a.pilot_level)[i]
                          + Dsb(a.stereo)[i] + bus.v[i]])]

(* the make_mpx driver *)

\* low-passed (left, right) samples, in thousandths
StereoPairs == { <<0, 0>>, <<600, 600>>, <<600, -200>> }

\* pilot_level, rds_level, rds2_level in thousandths: all zero, the defaults
Levels ==
    { [pilot_level |-> 0, rds_level |-> 0, rds2_level |-> 0],
      [pilot_level |-> 80, rds_level |-> 30, rds2_level |-> 10] }

\* the waveform of carrier k, m samples long, in thousandths
WavePattern(m, k) == [i \in 1..m |-> IF (i + k) % 2 = 0 THEN 700 ELSE -300 - k]

NoMpx == [done |-> FALSE, err |-> FALSE, lpr |-> <<>>, rds |-> <<>>, mpx |-> <<>>]

MpxArgs(stereo, lv, m, en) ==
    [stereo |-> stereo, pilot_level |-> lv.pilot_level, rds_level |-> lv.rds_level,
     rds2_level |-> lv.rds2_level, has_bits |-> m > 0,
     waves |-> [k \in 1..4 |-> WavePattern(m, k)], enable_rds2 |-> en]

MpxInit ==
    /\ \E n \in 0..MaxSamples : \E stereo \in [1..n -> StereoPairs] :
       \E lv \in Levels : \E m \in 0..MaxWave : \E en \in BOOLEAN :
          mpx_args = MpxArgs(stereo, lv, m, en)
    /\ mpx_ret = NoMpx

MpxIdle ==
    /\ mpx_args = MpxArgs(<<>>, [pilot_level |-> 0, rds_level |-> 0, rds2_level |-> 0],
                          0, FALSE)
    /\ mpx_ret = NoMpx

\* make_mpx(left, right, fs, pilot_level, rds_level, rds2_level, rds_bits, enable_rds2)
MakeMpx ==
    /\ ~mpx_ret.done
    /\ mpx_ret' = MakeMpxSamples(mpx_args)
    /\ UNCHANGED mpx_args
    /\ UNCHANGED <<genVars, resVars, crcVars, logoVars, playVars, bldVars, encVars, webVars>>

-----------------------------------------------------------------------------
(* Web UI stream control (webui.py): the /start and /stop handlers and the  *)
(* run_stream thread.  The server handles requests in parallel threads, so  *)
(* the steps of two /start requests interleave.                             *)

\* Thread objects made over a run
MaxThreads == 3

\* /start requests handled at the same time
MaxHandlers == 2

\* Thread.is_alive(): started and run() not yet returned
IsAlive(t) == t # 0 /\ threads[t].pc \in {"setup", "stream", "finally", "clear"}

AliveThreads == { t \in 1..MaxThreads : IsAlive(t) }

WebInit ==
    /\ stream_thread = 0
    /\ threads = [t \in 1..MaxThreads |-> [pc |-> "none", cb |-> "off"]]
    /\ n_threads = 0
    /\ stop_flag = FALSE
    /\ running = FALSE
    /\ req = [h \in 1..MaxHandlers |-> "idle"]
    /\ stop_for = 0

WebOthers == <<genVars, resVars, crcVars, logoVars, playVars, bldVars, encVars, mpxVars>>

\* start(): if _stream_thread and _stream_thread.is_alive(): return redirect;
\* otherwise go on to read the form and save the uploads
StartCheck(h) ==
    /\ req[h] = "idle"
    /\ req' = [req EXCEPT ![h] = IF IsAlive(stream_thread) THEN "busy" ELSE "form"]
    /\ UNCHANGED <<stream_thread, threads, n_threads, stop_flag, running, stop_for>>
    /\ UNCHANGED WebOthers

\* start(): log('Stream already running'); return redirect(url_for('index'))
StartBusy(h) ==
    /\ req[h] = "busy"
    /\ req' = [req EXCEPT ![h] = "idle"]
    /\ UNCHANGED <<stream_thread, threads, n_threads, stop_flag, running, stop_for>>
    /\ UNCHANGED WebOthers

\* start(): _stop_flag.clear()
StartClear(h) ==
    /\ req[h] = "form"
    /\ stop_flag' = FALSE
    /\ req' = [req EXCEPT ![h] = "cleared"]
    /\ UNCHANGED <<stream_thread, threads, n_threads, running, stop_for>>
    /\ UNCHANGED WebOthers

\* start(): _stream_thread = threading.Thread(target=run_stream, ...)
StartCreate(h) ==
    /\ req[h] = "cleared"
    /\ n_threads < MaxThreads
    /\ n_threads' = n_threads + 1
    /\ threads' = [threads EXCEPT ![n_threads + 1] = [pc |-> "new", cb |-> "off"]]
    /\ stream_thread' = n_threads + 1
    /\ req' = [req EXCEPT ![h] = "made"]
    /\ UNCHANGED <<stop_flag, running, stop_for>>
    /\ UNCHANGED WebOthers

\* start(): _stream_thread.start() on whatever the global refers to now;
\* RuntimeError when that thread was started already
StartThread(h) ==
    /\ req[h] = "made"
    /\ threads' = IF threads[stream_thread].pc = "new"
                  THEN [threads EXCEPT ![stream_thread].pc = "setup"]
                  ELSE threads
    /\ req' = [req EXCEPT ![h] = "idle"]
    /\ UNCHANGED <<stream_thread, n_threads, stop_flag, running, stop_for>>
    /\ UNCHANGED WebOthers

\* stop(): _stop_flag.set()
Stop ==
    /\ stop_flag' = TRUE
    /\ stop_for' = IF \E t \in AliveThreads : AliveThreads = {t} /\ threads[t].pc = "stream"
                   THEN CHOOSE t \in AliveThreads : TRUE
                   ELSE 0
    /\ UNCHANGED <<stream_thread, threads, n_threads, running, req>>
    /\ UNCHANGED WebOthers

\* run_stream, lines 246-275: device query, audio, RDS bits, then
\* STATE.update(running=True); any exception goes to except and finally
ThreadSetup(t) ==
    /\ threads[t].pc = "setup"
    /\ \/ /\ threads' = [threads EXCEPT ![t].pc = "stream", ![t].cb = "on"]
          /\ running' = TRUE
       \/ /\ threads' = [threads EXCEPT ![t].pc = "finally"]
          /\ UNCHANGED running
    /\ UNCHANGED <<stream_thread, n_threads, stop_flag, req, stop_for>>
    /\ UNCHANGED WebOthers

\* callback: if _stop_flag.is_set(): raise sd.CallbackStop
Callback(t) ==
    /\ threads[t].pc = "stream"
    /\ threads[t].cb = "on"
    /\ stop_flag
    /\ threads' = [threads EXCEPT ![t].cb = "off"]
    /\ UNCHANGED <<stream_thread, n_threads, stop_flag, running, req, stop_for>>
    /\ UNCHANGED WebOthers

\* with sd.OutputStream(...): while not _stop_flag.is_set(): time.sleep(0.25)
ThreadLeaveLoop(t) ==
    /\ threads[t].pc = "stream"
    /\ stop_flag
    /\ threads' = [threads EXCEPT ![t].pc = "finally", ![t].cb = "off"]
    /\ UNCHANGED <<stream_thread, n_threads, stop_flag, running, req, stop_for>>
    /\ UNCHANGED WebOthers

\* finally: with _state_lock: STATE['running'] = False
ThreadFinally(t) ==
    /\ threads[t].pc = "finally"
    /\ running' = FALSE
    /\ threads' = [threads EXCEPT ![t].pc = "clear"]
    /\ UNCHANGED <<stream_thread, n_threads, stop_flag, req, stop_for>>
    /\ UNCHANGED WebOthers

\* finally: _stop_flag.clear(); log('Stream stopped'); the thread ends
ThreadClear(t) ==
    /\ threads[t].pc = "clear"
    /\ stop_flag' = FALSE
    /\ threads' = [threads EXCEPT ![t].pc = "dead"]
    /\ UNCHANGED <<stream_thread, n_threads, running, req, stop_for>>
    /\ UNCHANGED WebOthers

-----------------------------------------------------------------------------
(* Specifications *)

GenNext ==
    \/ SetLogoBits
    \/ NextGroupBits
    \/ GenerateBitsCall
    \/ GenerateBitsLoop
    \/ GenerateBitsReturn

GenSpecInit == GenInit /\ ResIdle /\ CrcIdle /\ LogoIdle /\ PlayIdle /\ BldIdle /\ EncIdle /\ MpxIdle /\ WebInit

\* the generator under any sequence of calls; a caller that keeps calling
\* next_group_bits, and a generate_bits call that is run to its end
SpecGen ==
    /\ GenSpecInit
    /\ [][GenNext]_vars
    /\ WF_vars(NextGroupBits)
    /\ WF_vars(GenerateBitsLoop)
    /\ WF_vars(GenerateBitsReturn)

ResNext == GenerateTwice

ResSpecInit == GenIdle /\ ResInit /\ CrcIdle /\ LogoIdle /\ PlayIdle /\ BldIdle /\ EncIdle /\ MpxIdle /\ WebInit

SpecResume == ResSpecInit /\ [][ResNext]_vars

CrcNext == RdsBlock

CrcSpecInit == GenIdle /\ ResIdle /\ CrcInit /\ LogoIdle /\ PlayIdle /\ BldIdle /\ EncIdle /\ MpxIdle /\ WebInit

SpecCrc == CrcSpecInit /\ [][CrcNext]_vars

LogoNext == LoadLogoBits

LogoSpecInit == GenIdle /\ ResIdle /\ CrcIdle /\ LogoInit /\ PlayIdle /\ BldIdle /\ EncIdle /\ MpxIdle /\ WebInit

SpecLogo == LogoSpecInit /\ [][LogoNext]_vars

PlayNext ==
    \/ ProducerStep
    \/ ProducerFinish
    \/ DurationElapses
    \/ InCallback
    \/ WorkerStop
    \/ WorkerStep
    \/ MainOpenStream
    \/ MainCloseStream
    \/ CallbackBlock
    \/ CallbackEmpty
    \/ CallbackSentinel

PlaySpecInit == GenIdle /\ ResIdle /\ CrcIdle /\ LogoIdle /\ PlayInit /\ BldIdle /\ EncIdle /\ MpxIdle /\ WebInit

SpecPlay == PlaySpecInit /\ [][PlayNext]_vars

BldNext ==
    \/ BuildGroup0A
    \/ BuildGroup2A

BldSpecInit ==
    GenIdle /\ ResIdle /\ CrcIdle /\ LogoIdle /\ PlayIdle /\ BldInit /\ EncIdle /\ MpxIdle /\ WebInit

SpecBuild == BldSpecInit /\ [][BldNext]_vars

EncNext == DifferentialEncode

EncSpecInit ==
    GenIdle /\ ResIdle /\ CrcIdle /\ LogoIdle /\ PlayIdle /\ BldIdle /\ EncInit /\ MpxIdle /\ WebInit

SpecEncode == EncSpecInit /\ [][EncNext]_vars

MpxNext == MakeMpx

MpxSpecInit ==
    GenIdle /\ ResIdle /\ CrcIdle /\ LogoIdle /\ PlayIdle /\ BldIdle /\ EncIdle /\ MpxInit /\ WebInit

SpecMpx == MpxSpecInit /\ [][MpxNext]_vars

StartStep(h) ==
    \/ StartBusy(h)
    \/ StartClear(h)
    \/ StartCreate(h)
    \/ StartThread(h)

ThreadStep(t) ==
    \/ ThreadSetup(t)
    \/ Callback(t)
    \/ ThreadLeaveLoop(t)
    \/ ThreadFinally(t)
    \/ ThreadClear(t)

WebNext ==
    \/ \E h \in 1..MaxHandlers : StartCheck(h)
    \/ \E h \in 1..MaxHandlers : StartStep(h)
    \/ Stop
    \/ \E t \in 1..MaxThreads : ThreadStep(t)

WebSpecInit ==
    GenIdle /\ ResIdle /\ CrcIdle /\ LogoIdle /\ PlayIdle /\ BldIdle /\ EncIdle /\ MpxIdle /\ WebInit

\* a request being handled runs to its return, and a started thread keeps
\* running: its loop polls the flag every quarter of a second
SpecWeb ==
    /\ WebSpecInit
    /\ [][WebNext]_vars
    /\ \A h \in 1..MaxHandlers : WF_vars(StartStep(h))
    /\ \A t \in 1..MaxThreads : WF_vars(ThreadStep(t))

Init == GenSpecInit

Next == GenNext

Spec == SpecGen

-----------------------------------------------------------------------------
(* Properties: the group scheduler *)

\* the order of the first 15 groups as scenario S5 lists it: <<type, segment>>
S5Groups ==
    << <<"0A", 0>>, <<"0A", 1>>, <<"2A", 0>>, <<"0A", 2>>, <<"0A", 3>>,
       <<"2A", 1>>, <<"0A", 0>>, <<"0A", 1>>, <<"2A", 2>>, <<"0A", 2>>,
       <<"0A", 3>>, <<"2A", 3>>, <<"0A", 0>>, <<"0A", 1>>, <<"2A", 4>> >>

\* C1: on a fresh generator with no logo frame, the k-th of 15 successive
\* next_group_bits calls returns the k-th group of S5's order (type and segment)
C1_FirstFifteenGroups ==
    n_direct \in 1..Min(Len(S5Groups), MaxDirect - 1)
        => <<last_group.kind, last_group.seg>> = S5Groups[n_direct]

\* C2: with no logo frame set and next_group_bits called again and again,
\* ps_index keeps reaching each of 0, 1, 2, 3 and a 0A group of each PS segment
\* 0, 1, 2, 3 is emitted infinitely often
C2_PsSegmentsRecur ==
    ([](~logo_frame.present) /\ []<><<NextGroupBits>>_vars)
        => \A s \in 0..3 :
              /\ []<>(ps_index = s)
              /\ []<>(last_group.kind = "0A" /\ last_group.seg = s)

\* C3: with a non-empty logo frame set and next_group_bits called again and
\* again, 0A groups and 2A groups are both emitted infinitely often
C3_LogoDoesNotStarveGroups ==
    (<>[](logo_frame.present /\ Len(logo_frame.bits) > 0) /\ []<><<NextGroupBits>>_vars)
        => /\ []<>(last_group.kind = "0A")
           /\ []<>(last_group.kind = "2A")

-----------------------------------------------------------------------------
(* Properties: checkword and group layout *)

RECURSIVE LongDivision(_, _)
\* bitwise long division by g(x): for k = 25 down to 10, a dividend with bit k
\* set has g(x) * x^(k - 10) subtracted (XOR); what is left is the remainder
LongDivision(d, k) ==
    IF k < 10 THEN d
    ELSE LongDivision(IF BitAt(d, k) = 1
                      THEN XorBits(d, RDS_CRC_POLY * Pow2(k - 10), 26) ELSE d,
                      k - 1)

\* the remainder of W * x^10 divided by g(x) in GF(2)
RemainderModG(w) == LongDivision(w * 1024, 25)

\* C4: for the 16-bit word W handed to _rds_block, _rds_crc10(W) is the
\* remainder of W * x^10 divided by g(x) = 0x5B9 in GF(2)
C4_CrcIsRemainder ==
    block.done => _rds_crc10(word16) = RemainderModG(word16)

\* a block as the format lays it out: the word MSB-first, then the 10 bits of
\* (remainder XOR offset) MSB-first
FormatBlock(w, off) ==
    BitsMSB(w, 16) \o BitsMSB(XorBits(RemainderModG(w), off, 10), 10)

\* C5: a 0A or 2A group is 104 bits, the blocks A, B, C, D in this order, each
\* its data word followed by CRC(word) XOR the offset of its position, and the
\* first 16 bits are pi_code
C5_GroupLayout ==
    last_group.kind \in {"0A", "2A"} =>
        LET w == IF last_group.kind = "0A" THEN Words0A(cfg, last_group.seg)
                 ELSE Words2A(cfg, last_group.seg)
        IN  /\ Len(last_group.bits) = 104
            /\ SubSeq(last_group.bits, 1, 16) = BitsMSB(cfg.pi_code, 16)
            /\ last_group.bits = FormatBlock(w[1], RDS_OFFSET_A)
                                 \o FormatBlock(w[2], RDS_OFFSET_B)
                                 \o FormatBlock(w[3], RDS_OFFSET_C)
                                 \o FormatBlock(w[4], RDS_OFFSET_D)

-----------------------------------------------------------------------------
(* Properties: generate_bits *)

\* generate_bits is at its `return out`
AtReturn == gen_pc = "loop" /\ ~(filled < total_bits)

\* C6: from any generator state generate_bits(n) terminates (every pass of the
\* loop adds at least one bit and the call reaches its return), and what it
\* returns is exactly n bits: the next_group_bits outputs of the call
\* concatenated, cut after n bits, the cut falling in the last of them
C6_GenerateBitsExact ==
    /\ [](gen_pc = "loop" =>
            /\ Len(out) = filled
            /\ filled <= total_bits
            /\ out = Take(call_bits, total_bits))
    /\ [](AtReturn =>
            /\ Len(out) = total_bits
            /\ Len(call_bits) >= total_bits
            /\ (total_bits > 0 => Len(call_bits) - call_last < total_bits)
            /\ (total_bits = 0 => call_bits = <<>>))
    /\ [][GenerateBitsLoop => filled' > filled]_vars
    /\ (gen_pc = "loop" ~> gen_pc = "idle")

\* a call for 250 bits on a generator holding a non-empty logo frame is at its
\* return, having fetched several slices and cut the last one
C6_Witness ==
    /\ AtReturn
    /\ total_bits = 250
    /\ logo_frame.present /\ Len(logo_frame.bits) > 0
    /\ call_last < Len(call_bits)
    /\ Len(call_bits) > total_bits

\* C7: generate_bits(a) followed by generate_bits(b) on one generator gives,
\* concatenated, the bits of generate_bits(a + b) on a generator built alike
C7_Resumable ==
    parts.done => parts.first \o parts.second = parts.whole

-----------------------------------------------------------------------------
(* Properties: play *)

\* C8: when the output stream is closed, the callback has dequeued every MPX
\* block the producer put on the queue, and the sentinel after them
C8_NoBlockDiscarded ==
    stream = "closed" => (Len(delivered) = n_put /\ q_out = <<>>)

\* the clocks of block b start at the number of samples of all earlier blocks
ClockContinues(b) ==
    b.mpx.frames > 0 => (b.mpx.t.first = b.start /\ b.mpx.rds_t.first = b.start)

\* C9: sample i of a block is evaluated (19 kHz, 38 kHz and RDS carrier) at
\* index i plus the number of samples of all earlier blocks
C9_SampleClockContinuous ==
    /\ \A i \in 1..Len(q_out) : ~q_out[i].none => ClockContinues(q_out[i])
    /\ \A i \in 1..Len(delivered) : ClockContinues(delivered[i])

-----------------------------------------------------------------------------
(* Properties: the logo frame *)

RECURSIVE BitsToInt(_)
\* the number a bit sequence spells MSB-first
BitsToInt(bits) ==
    IF bits = <<>> THEN 0
    ELSE 2 * BitsToInt(SubSeq(bits, 1, Len(bits) - 1)) + bits[Len(bits)]

\* the wire format read back: magic(8), width(7), height(6), reserved(3),
\* payload(width * height), checksum(16)
ParseFrame(f) ==
    LET w == BitsToInt(SubSeq(f, 9, 15))
        h == BitsToInt(SubSeq(f, 16, 21))
    IN  [magic    |-> BitsToInt(SubSeq(f, 1, 8)),
         w        |-> w,
         h        |-> h,
         reserved |-> BitsToInt(SubSeq(f, 22, 24)),
         payload  |-> SubSeq(f, 25, 24 + w * h),
         checksum |-> BitsToInt(SubSeq(f, Len(f) - 15, Len(f)))]

\* C10: the frame load_logo_bits builds, read back by the wire format, gives
\* the thresholded bitmap, and its last 16 bits are the checksum of the payload
\* read
C10_LogoRoundTrip ==
    all_bits.done =>
        LET p == ParseFrame(all_bits.bits)
        IN  /\ Len(all_bits.bits) = 40 + arr.w * arr.h
            /\ p.magic = RDS2_LOGO_MAGIC
            /\ p.w = arr.w
            /\ p.h = arr.h
            /\ p.reserved = 0
            /\ p.payload = Threshold(arr.pix)
            /\ p.checksum = SumSeq(PayloadBytes(p.payload)) % 65536

-----------------------------------------------------------------------------
(* Properties: the words of a group *)

\* the 16-bit data word of block k (1 = A .. 4 = D) read from a group's bits
WordOf(bits, k) == BitsToInt(SubSeq(bits, 26 * (k - 1) + 1, 26 * (k - 1) + 16))

\* the 10 checkword bits of block k read from a group's bits
CheckOf(bits, k) == BitsToInt(SubSeq(bits, 26 * (k - 1) + 17, 26 * k))

\* a text right-padded with spaces to n characters and truncated to n
PadTo(text, n) == [i \in 1..n |-> IF i <= Len(text) THEN text[i] ELSE 32]

\* (c1 << 8) | c2 for two character codes
TwoChars(c1, c2) == c1 * 256 + c2

\* a 2A group was built for radiotext "HELLO WORLD"
HelloWorld2A == built.done /\ built.type = "2A" /\ bcfg.radiotext = StrHELLOWORLD

\* C11 (as amended): for radiotext "HELLO WORLD", build_group_2a with rt_index 0
\* has block C = 0x4845 ("HE") and block D = 0x4C4C ("LL"), and with rt_index 2
\* has block C = 0x524C ("RL") and block D = 0x4420 ("D ")
C11_HelloWorldWords ==
    HelloWorld2A =>
        /\ pair_index = 0 => (WordOf(built.bits, 3) = 18501 /\ WordOf(built.bits, 4) = 19532)
        /\ pair_index = 2 => (WordOf(built.bits, 3) = 21068 /\ WordOf(built.bits, 4) = 17440)

\* C11 (as stated): ... and with rt_index 2 has block C = 0x4F52 ("OR") and
\* block D = 0x4C44 ("LD")
C11_AsStated ==
    HelloWorld2A =>
        /\ pair_index = 0 => (WordOf(built.bits, 3) = 18501 /\ WordOf(built.bits, 4) = 19532)
        /\ pair_index = 2 => (WordOf(built.bits, 3) = 20306 /\ WordOf(built.bits, 4) = 19524)

\* the 2A group of rt_index 2 was built for "HELLO WORLD"
C11_Witness == HelloWorld2A /\ pair_index = 2

\* C12: a 2A group is 104 bits, the checkword of block B (read at bits 16..26
\* as the sentence places it, or at bits 42..52 where the block order places
\* it) is CRC(block B) XOR 0x198, and bits 52..68 are the RT characters 4p, 4p+1
C12_Group2ABits ==
    (built.done /\ built.type = "2A") =>
        LET rt == PadTo(bcfg.radiotext, 64)
            p  == pair_index
            cw == XorBits(RemainderModG(WordOf(built.bits, 2)), RDS_OFFSET_B, 10)
        IN  /\ Len(built.bits) = 104
            /\ (CheckOf(built.bits, 1) = cw \/ CheckOf(built.bits, 2) = cw)
            /\ WordOf(built.bits, 3) = TwoChars(rt[4 * p + 1], rt[4 * p + 2])

\* C13: for PS segment s in 0..3 the 0A group carries A = pi_code,
\* B = (tp << 10) | (pty << 5) | s, C = 0 and D = (ps[2s] << 8) | ps[2s+1], ps
\* being the name padded with spaces to 8 and truncated to 8; for "TESTFM",
\* s = 2 gives D = 0x464D and s = 3 gives D = 0x2020
C13_Group0AWords ==
    (built.done /\ built.type = "0A" /\ pair_index \in 0..3) =>
        LET ps == PadTo(bcfg.program_service_name, 8)
            s  == pair_index
        IN  /\ WordOf(built.bits, 1) = bcfg.pi_code
            /\ WordOf(built.bits, 2) = OrBits(OrBits(bcfg.tp * 1024, bcfg.pty * 32, 16), s, 16)
            /\ WordOf(built.bits, 3) = 0
            /\ WordOf(built.bits, 4) = TwoChars(ps[2 * s + 1], ps[2 * s + 2])
            /\ (bcfg.program_service_name = StrTESTFM /\ s = 2)
                   => WordOf(built.bits, 4) = 17997
            /\ (bcfg.program_service_name = StrTESTFM /\ s = 3)
                   => WordOf(built.bits, 4) = 8224

\* the 0A group of segment 3 of "TESTFM" was built, with tp and pty set
C13_Witness ==
    /\ built.done /\ built.type = "0A" /\ pair_index = 3
    /\ bcfg.program_service_name = StrTESTFM
    /\ bcfg.tp = 1 /\ bcfg.pty = 31

\* C14: for RT segment p in 0..15 the 2A group carries A = pi_code,
\* B = (tp << 10) | (pty << 5) | (2 << 1) | p, C = (rt[4p] << 8) | rt[4p+1] and
\* D = (rt[4p+2] << 8) | rt[4p+3], rt being the radiotext padded with spaces to
\* 64 and truncated to 64
C14_Group2AWords ==
    (built.done /\ built.type = "2A") =>
        LET rt == PadTo(bcfg.radiotext, 64)
            p  == pair_index
        IN  /\ WordOf(built.bits, 1) = bcfg.pi_code
            /\ WordOf(built.bits, 2) =
                   OrBits(OrBits(OrBits(bcfg.tp * 1024, bcfg.pty * 32, 16), 4, 16), p, 16)
            /\ WordOf(built.bits, 3) = TwoChars(rt[4 * p + 1], rt[4 * p + 2])
            /\ WordOf(built.bits, 4) = TwoChars(rt[4 * p + 3], rt[4 * p + 4])

\* the 2A group of the last segment of a 70-character radiotext was built
C14_Witness ==
    /\ built.done /\ built.type = "2A" /\ pair_index = 15
    /\ Len(bcfg.radiotext) > 64
    /\ bcfg.tp = 1 /\ bcfg.pty = 31

-----------------------------------------------------------------------------
(* Properties: the generator's indices *)

\* C15: with a (non-empty) logo frame present, logo_idx < len(logo_frame)
C15_LogoCursorInFrame ==
    (logo_frame.present /\ Len(logo_frame.bits) > 0) => logo_idx < Len(logo_frame.bits)

\* C16: ps_index is in 0..3 and rt_index is in 0..15
C16_IndexRanges == ps_index \in 0..3 /\ rt_index \in 0..15

\* the last 2A group before rt_index wraps is about to be emitted
C16_Witness == rt_index = 15 /\ ps_index = 2 /\ last_group.kind = "2A"

\* C20: a group is only ever emitted for a pi_code of 16 bits
C20_InvalidPiRejected ==
    last_group.kind \in {"0A", "2A"} => cfg.pi_code \in 0..65535

-----------------------------------------------------------------------------
(* Properties: the callback *)

\* the blocks delivered are the first ones produced, in the order produced
DeliveredInOrder == \A i \in 1..Len(delivered) : delivered[i].k = i

\* C17: the callback gets the blocks in the order produced, None is on the
\* queue only behind every block and nothing is put after it, and the callback
\* has dequeued every block put when it signals stop
C17_OrderAndSentinel ==
    /\ DeliveredInOrder
    /\ \A i \in 1..Len(q_out) :
          IF q_out[i].none THEN i = Len(q_out) /\ ~prod_alive
          ELSE q_out[i].k = Len(delivered) + i
    /\ stream = "stopped" => (Len(delivered) = n_put /\ q_out = <<>> /\ ~prod_alive)

\* the callback has signalled stop after three blocks
C17_Witness == stream = "stopped" /\ Len(delivered) >= 3

\* C18: a callback that finds the queue empty leaves the stream running and
\* the queue and the blocks delivered as they are; blocks delivered after it
\* are the next ones produced
C18_UnderrunSilence ==
    /\ [][CallbackEmpty => (stream' = "active" /\ q_out' = q_out /\ delivered' = delivered)]_vars
    /\ [](Len(silent_before) = Len(delivered) /\ DeliveredInOrder)

\* a block was delivered, a callback then wrote silence, and the next block
\* was delivered after it
C18_Witness ==
    /\ Len(delivered) >= 2
    /\ silent_before[1] = 0
    /\ silent_before[2] >= 1

-----------------------------------------------------------------------------
(* Properties: differential_encode *)

\* C19: symbol i is +1 or -1, the negation of the symbol before it (of +1 for
\* the first) when bit i is 1 and equal to it when bit i is 0; it is -1 exactly
\* when the bits up to i hold an odd number of ones
C19_DifferentialEncode ==
    enc_out.done =>
        /\ Len(enc_out.symbols) = Len(enc_bits)
        /\ \A i \in 1..Len(enc_bits) :
              LET prev == IF i = 1 THEN 1 ELSE enc_out.symbols[i - 1]
                  ones == Cardinality({ j \in 1..i : enc_bits[j] = 1 })
              IN  /\ enc_out.symbols[i] \in {1, -1}
                  /\ enc_out.symbols[i] = (IF enc_bits[i] = 1 THEN -prev ELSE prev)
                  /\ (enc_out.symbols[i] = -1) <=> ((ones % 2) = 1)

\* the bits 1, 1, 0, 1 were encoded
C19_Witness == enc_out.done /\ enc_bits = <<1, 1, 0, 1>>

-----------------------------------------------------------------------------
(* make_mpx with every injection level at zero *)

AllLevelsZero ==
    mpx_args.pilot_level = 0 /\ mpx_args.rds_level = 0 /\ mpx_args.rds2_level = 0

\* C21: with the pilot, RDS and RDS2 levels all zero, the block make_mpx
\* returns equals lpr sample for sample, whatever the left and right inputs
\* are (the 38 kHz DSB term contributes nothing).
C21_ZeroLevelsGiveLpr ==
    (mpx_ret.done /\ AllLevelsZero) => mpx_ret.mpx = mpx_ret.lpr

-----------------------------------------------------------------------------
(* Properties: the layout of the logo frame and the length of the MPX block *)

\* C22: for an image reduced to w in 1..64 by h in 1..32 the frame
\* load_logo_bits returns has 24 + w*h + 16 bits and begins with 0xA7 in 8
\* bits MSB-first, then w in 7 bits, h in 6 bits and 3 zero bits; a 16x8
\* image gives 168 bits with the width field 0010000.
C22_LogoFrameLayout ==
    all_bits.done =>
        /\ arr.w \in 1..64 /\ arr.h \in 1..32
        /\ Len(all_bits.bits) = 24 + arr.w * arr.h + 16
        /\ SubSeq(all_bits.bits, 1, 8) = <<1, 0, 1, 0, 0, 1, 1, 1>>
        /\ BitsToInt(SubSeq(all_bits.bits, 9, 15)) = arr.w
        /\ BitsToInt(SubSeq(all_bits.bits, 16, 21)) = arr.h
        /\ SubSeq(all_bits.bits, 22, 24) = <<0, 0, 0>>
        /\ (arr.w = 16 /\ arr.h = 8) =>
              /\ Len(all_bits.bits) = 168
              /\ SubSeq(all_bits.bits, 9, 15) = <<0, 0, 1, 0, 0, 0, 0>>

\* the frame of a 16x8 image has been built
C22_Witness == all_bits.done /\ arr.w = 16 /\ arr.h = 8

\* the length of the waveforms bpsk_subcarrier returned for this call
WaveLen == IF mpx_args.has_bits THEN Len(mpx_args.waves[1]) ELSE 0

\* C23: make_mpx returns a block of the input length N for every N and every
\* waveform length M, without a length-mismatch error: the RDS bus holds the
\* level-scaled waveforms truncated to N samples when M >= N and padded with
\* zeros to N when M < N, for the 57 kHz carrier and each RDS2 carrier.
C23_BlockLength ==
    mpx_ret.done =>
        LET N == Len(mpx_args.stereo)
            a == mpx_args
        IN  /\ ~mpx_ret.err
            /\ Len(mpx_ret.mpx) = N
            /\ Len(mpx_ret.rds) = N
            /\ \A i \in 1..N :
                  mpx_ret.rds[i] =
                     IF i <= WaveLen
                     THEN a.rds_level * a.waves[1][i]
                          + (IF a.enable_rds2
                             THEN a.rds2_level
                                  * (a.waves[2][i] + a.waves[3][i] + a.waves[4][i])
                             ELSE 0)
                     ELSE 0

\* a call whose waveforms are longer than the block, with RDS2 enabled
C23_Witness ==
    /\ mpx_ret.done
    /\ Len(mpx_args.stereo) > 0
    /\ WaveLen > Len(mpx_args.stereo)
    /\ mpx_args.enable_rds2
    /\ mpx_args.rds_level > 0

-----------------------------------------------------------------------------
(* Properties: the effect of one next_group_bits call *)

\* a step in which next_group_bits() is called once
GroupCall == NextGroupBits \/ GenerateBitsLoop

\* C24: with no logo frame, a call made when ps_index mod 3 # 2 returns group
\* 0A of segment ps_index, sets ps_index to (ps_index + 1) mod 4 and leaves
\* rt_index alone; a call made when ps_index mod 3 = 2 returns group 2A of
\* segment rt_index, sets rt_index to (rt_index + 1) mod 16 and leaves
\* ps_index alone; rt_index changes in no other step.
C24_GroupCallEffect ==
    /\ [][ (GroupCall /\ ~logo_frame.present) =>
             IF ps_index % 3 # 2
             THEN /\ last_group'.kind = "0A"
                  /\ last_group'.seg = ps_index
                  /\ last_group'.bits = PackGroup(Words0A(cfg, ps_index))
                  /\ ps_index' = (ps_index + 1) % 4
                  /\ rt_index' = rt_index
             ELSE /\ last_group'.kind = "2A"
                  /\ last_group'.seg = rt_index
                  /\ last_group'.bits = PackGroup(Words2A(cfg, rt_index))
                  /\ rt_index' = (rt_index + 1) % 16
                  /\ ps_index' = ps_index ]_vars
    /\ [][ rt_index' # rt_index =>
             /\ GroupCall
             /\ last_group'.kind = "2A"
             /\ last_group'.seg = rt_index
             /\ rt_index' = (rt_index + 1) % 16 ]_vars

\* the 2A group of segment 15 was returned and rt_index is back at 0
C24_Witness ==
    /\ ~logo_frame.present
    /\ last_group.kind = "2A"
    /\ last_group.seg = 15
    /\ rt_index = 0
    /\ ps_index = 2

\* C25: with a non-empty logo frame and ps_index mod 5 = 0, a call returns a
\* slice of 1 to 104 bits of the frame that starts at logo_idx, or at 0 once
\* the frame is exhausted, and moves logo_idx to the end of the slice, so
\* that successive slices are the frame repeated without gap or overlap; it
\* leaves ps_index and rt_index alone.
C25_LogoSliceEffect ==
    /\ [](logo_frame.present => logo_idx <= Len(logo_frame.bits))
    /\ [][ (GroupCall /\ logo_frame.present /\ Len(logo_frame.bits) > 0
                      /\ ps_index % 5 = 0) =>
             LET len   == Len(logo_frame.bits)
                 start == IF logo_idx = len THEN 0 ELSE logo_idx
                 n     == IF len - start < 104 THEN len - start ELSE 104
             IN  /\ n >= 1
                 /\ last_group'.kind = "logo"
                 /\ last_group'.seg = start
                 /\ last_group'.bits = SubSeq(logo_frame.bits, start + 1, start + n)
                 /\ Len(last_group'.bits) = n
                 /\ logo_idx' = start + n
                 /\ ps_index' = ps_index
                 /\ rt_index' = rt_index ]_vars

\* the second slice of a 136-bit frame was returned: bits 104..135
C25_Witness ==
    /\ logo_frame.present
    /\ Len(logo_frame.bits) = 136
    /\ last_group.kind = "logo"
    /\ last_group.seg = 104
    /\ Len(last_group.bits) = 32
    /\ logo_idx = 136

-----------------------------------------------------------------------------
(* Properties: the RDS bits handed to make_mpx in play *)

\* every MPX block produced so far, in the order produced
AllBlocks == delivered \o SelectSeq(q_out, LAMBDA b : ~b.none)

\* C26: every block handed to make_mpx carries exactly
\* bits_needed = ceil(frames / fs * 1187.5) + 208 bits, in file/tone mode
\* (where one refill of 2375 bits always suffices) and in capture mode.
C26_BlockCarriesBitsNeeded ==
    \A i \in 1..Len(AllBlocks) :
        AllBlocks[i].mpx.nbits = BitsNeeded(AllBlocks[i].mpx.frames, fs)

\* file mode: blocks were produced whose bits exceed the initial buffer, so
\* the producer had to refill
C26_Witness ==
    /\ mode = "file"
    /\ n_put >= 2
    /\ bits_taken > InitialBits(stereo_len, fs)
    /\ \E i \in 1..Len(AllBlocks) : AllBlocks[i].mpx.nbits > RefillBits

\* the bits of a block whose symbol begins within its num_samples samples:
\* bit j begins at sample j * fs / 1187.5, and rds_wave[:num_samples] drops
\* the rest
SymbolsInBlock(frames, rate) == CeilDiv(frames * 2375, rate * 2)

\* C27: the RDS bits modulated are contiguous across blocks: the first bit of
\* block k+1 is the bit that follows the last bit whose symbol lies in the
\* samples of block k (counting a symbol cut by the block edge either way).
C27_BitsContiguous ==
    \A i \in 1..(Len(AllBlocks) - 1) :
        LET b == AllBlocks[i]
            sent == SymbolsInBlock(b.mpx.frames, fs)
        IN  /\ AllBlocks[i + 1].bit0 <= b.bit0 + sent
            /\ AllBlocks[i + 1].bit0 >= b.bit0 + sent - 1

-----------------------------------------------------------------------------
(* Properties: block B as the identity of a group *)

\* the segment a built group carries: ps_pair_index & 0x3, rt_pair_index & 0x0F
BuiltSegment == IF built.type = "0A" THEN pair_index % 4 ELSE pair_index % 16

\* block_b of the group of the given type and segment, for the same cfg
BlockBOf(type, seg) ==
    IF type = "0A" THEN Words0A(bcfg, seg)[2] ELSE Words2A(bcfg, seg)[2]

\* C28: for fixed tp and pty block B identifies the group: the block-B words
\* of 0A segments 0..3 and of 2A segments 0..15 are 20 pairwise different
\* values, so no other group has the block B of the group just built.
C28_BlockBIdentifiesGroup ==
    built.done =>
        /\ \A seg \in 0..3 :
              ("0A" # built.type \/ seg # BuiltSegment)
                 => BlockBOf("0A", seg) # WordOf(built.bits, 2)
        /\ \A seg \in 0..15 :
              ("2A" # built.type \/ seg # BuiltSegment)
                 => BlockBOf("2A", seg) # WordOf(built.bits, 2)

-----------------------------------------------------------------------------
(* Properties: the web UI's stream control *)

\* C29: when /stop is requested while exactly one stream thread is running,
\* that thread eventually leaves its loop and ends, having set
\* STATE['running'] to False and cleared the stop flag.
C29_StopEndsTheStream ==
    \A t \in 1..MaxThreads : (stop_for = t) ~> (threads[t].pc = "dead")

\* C30: at most one run_stream thread is alive at any time, under every
\* interleaving of /start and /stop requests.
C30_OneStreamThread == Cardinality(AliveThreads) <= 1

====
